---- MODULE Spec2Model ----
(***************************************************************************)
(* Model of src/src/app/page.tsx (CarChargerCalculator): the charger list, *)
(* the draft form, the two sliders, export/import of the list and the      *)
(* 61-month cost projection (chartData).                                   *)
(*                                                                         *)
(* Numbers.  A JavaScript number is modelled as a decimal with one         *)
(* fractional digit, stored as an integer count of tenths (Scale == 10),   *)
(* or as NaN.  Every product of the cost formula has a whole-number factor *)
(* (monthlyKwh, month), so the arithmetic below is exact on these values.  *)
(* Strings typed into the number fields are sequences of one-character     *)
(* strings, so that parseFloat can be modelled as the scan it performs.    *)
(***************************************************************************)
EXTENDS Integers, Sequences, FiniteSets, TLC

(* ------------------------------ bounds -------------------------------- *)
MaxChargers == 2      \* longest charger list explored
MaxNow      == 3      \* last value of the millisecond clock explored
MaxRandom   == 1      \* Math.random() ranges over 0..MaxRandom tenths
MaxReads    == 1      \* FileReader reads in flight at once

(* ------------------------- program constants -------------------------- *)
Scale       == 10     \* tenths per unit (representation of numbers)
NumMonths   == 61     \* Array.from({ length: 61 })
InitialNow  == 2      \* first clock value; the initial charger has id 1

(* --------------------------- JavaScript values ------------------------ *)
JsNum(n)  == [t |-> "number",    nan |-> FALSE, v |-> n, s |-> ""]
NaN       == [t |-> "number",    nan |-> TRUE,  v |-> 0, s |-> ""]
JsStr(x)  == [t |-> "string",    nan |-> FALSE, v |-> 0, s |-> x]
Null      == [t |-> "null",      nan |-> FALSE, v |-> 0, s |-> ""]
Undefined == [t |-> "undefined", nan |-> FALSE, v |-> 0, s |-> ""]

Whole(n)  == JsNum(n * Scale)

typeof(x) == IF x.t = "null" THEN "object" ELSE x.t

\* x || 0 and the truthiness test it rests on
Truthy(x) ==
    CASE x.t = "number" -> ~x.nan /\ x.v # 0
      [] x.t = "string" -> x.s # ""
      [] OTHER          -> FALSE

JsAdd(a, b) == IF a.nan \/ b.nan THEN NaN ELSE JsNum(a.v + b.v)
JsMul(a, b) == IF a.nan \/ b.nan THEN NaN ELSE JsNum((a.v * b.v) \div Scale)

\* Math.floor in the place of Math.round
MathFloor(x) == IF x.nan THEN NaN ELSE JsNum((x.v \div Scale) * Scale)

\* Math.round: the nearest integer, ties towards +Infinity; NaN stays NaN
MathRound(x) == IF x.nan THEN NaN ELSE JsNum(((x.v + (Scale \div 2)) \div Scale) * Scale)

(* ------------------------------ parseFloat ---------------------------- *)
DigitChars == {"0", "1", "2", "3", "4", "5", "6", "7", "8", "9"}

DigitVal(c) ==
    CASE c = "0" -> 0 [] c = "1" -> 1 [] c = "2" -> 2 [] c = "3" -> 3
      [] c = "4" -> 4 [] c = "5" -> 5 [] c = "6" -> 6 [] c = "7" -> 7
      [] c = "8" -> 8 [] c = "9" -> 9

RECURSIVE DigitRun(_, _)
\* number of consecutive digit characters of str starting at position i
DigitRun(str, i) ==
    IF i <= Len(str) /\ str[i] \in DigitChars THEN 1 + DigitRun(str, i + 1) ELSE 0

RECURSIVE DigitsValue(_, _, _)
\* the decimal value of the n digits of str that start at position i
DigitsValue(str, i, n) ==
    IF n = 0 THEN 0
    ELSE DigitsValue(str, i, n - 1) * 10 + DigitVal(str[i + n - 1])

\* parseFloat: optional sign, digits, optional point and digits; the longest
\* such prefix is converted and whatever follows is ignored; NaN when the
\* prefix has no digit.  Fraction digits after the first are beyond the
\* representation and are dropped.
parseFloat(str) ==
    LET hasSign == Len(str) >= 1 /\ str[1] \in {"-", "+"}
        sign    == IF hasSign /\ str[1] = "-" THEN -1 ELSE 1
        i0      == IF hasSign THEN 2 ELSE 1
        nInt    == DigitRun(str, i0)
        dot     == i0 + nInt
        hasDot  == dot <= Len(str) /\ str[dot] = "."
        nFrac   == IF hasDot THEN DigitRun(str, dot + 1) ELSE 0
        intPart == DigitsValue(str, i0, nInt)
        tenth   == IF nFrac > 0 THEN DigitVal(str[dot + 1]) ELSE 0
    IN  IF nInt + nFrac = 0 THEN NaN
        ELSE JsNum(sign * (intPart * Scale + tenth))

(* -------------------------------- state ------------------------------- *)
VARIABLES
    chargers,          \* useState<Charger[]>
    electricityPrice,  \* useState<number>(2.5)
    monthlyKwh,        \* useState<number>(300)
    newCharger,        \* useState<NewChargerInput>: the draft form
    now,               \* Date.now(), the millisecond clock
    reading,           \* FileReader reads in flight: the files' texts
    last               \* the last handler run and what it reported

vars == <<chargers, electricityPrice, monthlyKwh, newCharger, now, reading, last>>

emptyDraft ==
    [name |-> "", investment |-> <<>>, subscription |-> <<>>, marginalCost |-> <<>>,
     pricingType |-> "variable", fixedPrice |-> <<>>]

initialChargers ==
    << [id |-> Whole(1), name |-> JsStr("Basic Wall Charger"),
        investment |-> Whole(3000), subscription |-> Whole(0),
        marginalCost |-> JsNum(2), pricingType |-> JsStr("variable"),
        fixedPrice |-> Null] >>

Init ==
    /\ chargers = initialChargers
    /\ electricityPrice = JsNum(25)
    /\ monthlyKwh = Whole(300)
    /\ newCharger = emptyDraft
    /\ now = InitialNow
    /\ reading = <<>>
    /\ last = [op |-> "init", result |-> "ok"]

(* ------------------------------ draft form ---------------------------- *)
\* what the user types: the name field, and the four number fields
NameInputs         == {"", "A", "month"}
InvestmentInputs   == {<<>>, <<"1", ".", "5">>, <<"a", "b", "c">>}
SubscriptionInputs == {<<>>, <<"1", "0">>}
MarginalInputs     == {<<>>, <<"0", ".", "2">>}
FixedPriceInputs   == {<<>>, <<"3", ".", "0">>}

setName(v) ==
    /\ newCharger' = [newCharger EXCEPT !.name = v]
    /\ last' = [op |-> "setNewCharger", result |-> "ok"]
    /\ UNCHANGED <<chargers, electricityPrice, monthlyKwh, now, reading>>

setInvestment(v) ==
    /\ newCharger' = [newCharger EXCEPT !.investment = v]
    /\ last' = [op |-> "setNewCharger", result |-> "ok"]
    /\ UNCHANGED <<chargers, electricityPrice, monthlyKwh, now, reading>>

setSubscription(v) ==
    /\ newCharger' = [newCharger EXCEPT !.subscription = v]
    /\ last' = [op |-> "setNewCharger", result |-> "ok"]
    /\ UNCHANGED <<chargers, electricityPrice, monthlyKwh, now, reading>>

setMarginalCost(v) ==
    /\ newCharger' = [newCharger EXCEPT !.marginalCost = v]
    /\ last' = [op |-> "setNewCharger", result |-> "ok"]
    /\ UNCHANGED <<chargers, electricityPrice, monthlyKwh, now, reading>>

\* the "variable" radio button also clears the fixed price
selectVariable ==
    /\ newCharger' = [newCharger EXCEPT !.pricingType = "variable", !.fixedPrice = <<>>]
    /\ last' = [op |-> "setNewCharger", result |-> "ok"]
    /\ UNCHANGED <<chargers, electricityPrice, monthlyKwh, now, reading>>

selectFixed ==
    /\ newCharger' = [newCharger EXCEPT !.pricingType = "fixed"]
    /\ last' = [op |-> "setNewCharger", result |-> "ok"]
    /\ UNCHANGED <<chargers, electricityPrice, monthlyKwh, now, reading>>

\* the fixed price field is rendered only while the pricing type is fixed
setFixedPrice(v) ==
    /\ newCharger.pricingType = "fixed"
    /\ newCharger' = [newCharger EXCEPT !.fixedPrice = v]
    /\ last' = [op |-> "setNewCharger", result |-> "ok"]
    /\ UNCHANGED <<chargers, electricityPrice, monthlyKwh, now, reading>>

(* ------------------------------ addCharger ---------------------------- *)
\* the first test of addCharger: the four required fields are filled in
requiredFilled(d) ==
    /\ d.name # ""
    /\ d.investment # <<>>
    /\ d.subscription # <<>>
    /\ d.marginalCost # <<>>

\* the second test left out
fixedPriceNeverMissing(d) == FALSE

\* the second test: a fixed pricing type with an empty fixed price
fixedPriceMissing(d) == d.pricingType = "fixed" /\ d.fixedPrice = <<>>

\* the object literal with subscription and marginal cost taken from each
\* other's field
chargerOfDraftSwapped(d, t) ==
    [id           |-> Whole(t),
     name         |-> JsStr(d.name),
     investment   |-> parseFloat(d.investment),
     subscription |-> parseFloat(d.marginalCost),
     marginalCost |-> parseFloat(d.subscription),
     pricingType  |-> JsStr(d.pricingType),
     fixedPrice   |-> IF d.pricingType = "fixed" THEN parseFloat(d.fixedPrice) ELSE Null]

\* the object literal addCharger appends
chargerOfDraft(d, t) ==
    [id           |-> Whole(t),
     name         |-> JsStr(d.name),
     investment   |-> parseFloat(d.investment),
     subscription |-> parseFloat(d.subscription),
     marginalCost |-> parseFloat(d.marginalCost),
     pricingType  |-> JsStr(d.pricingType),
     fixedPrice   |-> IF d.pricingType = "fixed" THEN parseFloat(d.fixedPrice) ELSE Null]

addCharger ==
    /\ Len(chargers) < MaxChargers
    /\ IF requiredFilled(newCharger)
       THEN IF fixedPriceMissing(newCharger)
            THEN /\ last' = [op |-> "addCharger", result |-> "warnFixedPrice"]
                 /\ UNCHANGED <<chargers, newCharger>>
            ELSE /\ chargers' = Append(chargers, chargerOfDraft(newCharger, now))
                 /\ newCharger' = emptyDraft
                 /\ last' = [op |-> "addCharger", result |-> "added"]
       ELSE /\ last' = [op |-> "addCharger", result |-> "warnRequired"]
            /\ UNCHANGED <<chargers, newCharger>>
    /\ UNCHANGED <<electricityPrice, monthlyKwh, now, reading>>

(* ----------------------------- removeCharger -------------------------- *)
\* a filter that lets the first entry go, whatever its id
filterOutShift(list, id) ==
    IF list = <<>> THEN <<>> ELSE Tail(list)

RECURSIVE filterOut(_, _)
\* chargers.filter(c => c.id !== id)
filterOut(list, id) ==
    IF list = <<>> THEN <<>>
    ELSE IF Head(list).id # id
         THEN <<Head(list)>> \o filterOut(Tail(list), id)
         ELSE filterOut(Tail(list), id)

\* removeCharger(id): the list becomes the entries whose id is not id
removeCharger(id) ==
    /\ chargers' = filterOut(chargers, id)
    /\ last' = [op |-> "removeCharger", result |-> "ok"]
    /\ UNCHANGED <<electricityPrice, monthlyKwh, newCharger, now, reading>>

\* the trash button of the i-th row: removeCharger(charger.id)
removeButton(i) ==
    /\ i \in 1..Len(chargers)
    /\ removeCharger(chargers[i].id)

(* -------------------------------- sliders ----------------------------- *)
ElectricityPrices == {JsNum(25), JsNum(11)}      \* range 1..6, step 0.1
MonthlyKwhs       == {Whole(300), Whole(50)}     \* range 50..1000, step 10

setElectricityPrice(v) ==
    /\ electricityPrice' = v
    /\ last' = [op |-> "setElectricityPrice", result |-> "ok"]
    /\ UNCHANGED <<chargers, monthlyKwh, newCharger, now, reading>>

setMonthlyKwh(v) ==
    /\ monthlyKwh' = v
    /\ last' = [op |-> "setMonthlyKwh", result |-> "ok"]
    /\ UNCHANGED <<chargers, electricityPrice, newCharger, now, reading>>

(* --------------------------------- clock ------------------------------ *)
Tick ==
    /\ now < MaxNow
    /\ now' = now + 1
    /\ UNCHANGED <<chargers, electricityPrice, monthlyKwh, newCharger, reading, last>>

(* --------------------------- export and import ------------------------ *)
ChargerFields ==
    {"id", "name", "investment", "subscription", "marginalCost", "pricingType", "fixedPrice"}

\* JSON.stringify of one value: JSON has no NaN, it is written as null
jsonOfValue(x) == IF x.t = "number" /\ x.nan THEN Null ELSE x

\* JSON.stringify(chargers, null, 2): the text of a JSON array of objects
JSONstringify(list) ==
    [wellFormed |-> TRUE,
     doc |-> [t |-> "array",
              items |-> [i \in 1..Len(list) |->
                           [t |-> "object",
                            m |-> [f \in ChargerFields |-> jsonOfValue(list[i][f])]]]]]

\* exportChargers saves JSONstringify(chargers) as charging_solutions.json; the
\* state of the component is not touched
exportChargers ==
    /\ last' = [op |-> "exportChargers", result |-> "ok"]
    /\ UNCHANGED <<chargers, electricityPrice, monthlyKwh, newCharger, now, reading>>

\* elements a file may hold: a member that is absent reads as undefined
okVariableItem ==
    [t |-> "object",
     m |-> [id |-> Whole(7), name |-> JsStr("B"), investment |-> JsNum(1005),
            subscription |-> Whole(0), marginalCost |-> JsNum(2),
            pricingType |-> JsStr("variable"), fixedPrice |-> Null]]

fixedNullItem ==
    [t |-> "object",
     m |-> [id |-> Whole(8), name |-> JsStr("A"), investment |-> Whole(200),
            subscription |-> Whole(10), marginalCost |-> Whole(0),
            pricingType |-> JsStr("fixed"), fixedPrice |-> Null]]

noPricingTypeItem == [okVariableItem EXCEPT !.m.pricingType = Undefined]
nameNotStringItem == [okVariableItem EXCEPT !.m.name = Whole(5)]
noFixedPriceItem  == [okVariableItem EXCEPT !.m.fixedPrice = Undefined]
nullItem          == [t |-> "null", m |-> [f \in ChargerFields |-> Undefined]]

arrayFile(items) == [wellFormed |-> TRUE, doc |-> [t |-> "array", items |-> items]]

\* files offered to the file picker, besides an export of the list: files
\* that hold a list of chargers ...
ValidFiles ==
    { arrayFile(<<>>),
      arrayFile(<<okVariableItem>>),
      arrayFile(<<fixedNullItem, okVariableItem>>) }

\* ... and files that do not: text that is not JSON, JSON that is not an
\* array, arrays with an element of the wrong shape
MalformedFiles ==
    { [wellFormed |-> FALSE, doc |-> [t |-> "garbage", items |-> <<>>]],
      [wellFormed |-> TRUE,  doc |-> [t |-> "null",   items |-> <<>>]],
      [wellFormed |-> TRUE,  doc |-> [t |-> "object", items |-> <<>>]],
      arrayFile(<<okVariableItem, noPricingTypeItem>>),
      arrayFile(<<nameNotStringItem>>),
      arrayFile(<<okVariableItem, noFixedPriceItem>>),
      arrayFile(<<okVariableItem, nullItem>>) }

PickableFiles == ValidFiles \cup MalformedFiles

\* importChargers: the change handler of the file input starts a read
importChargers(file) ==
    /\ Len(reading) < MaxReads
    /\ reading' = Append(reading, file)
    /\ last' = [op |-> "importChargers", result |-> "reading"]
    /\ UNCHANGED <<chargers, electricityPrice, monthlyKwh, newCharger, now>>

\* JSON.parse throws a SyntaxError on text that is not JSON
parseThrows(file) == ~file.wellFormed

\* the test of one element with the pricingType line left out
itemShapeOkNoPricingType(item) ==
    /\ typeof(item.m.id) = "number"
    /\ typeof(item.m.name) = "string"
    /\ typeof(item.m.investment) = "number"
    /\ typeof(item.m.subscription) = "number"
    /\ typeof(item.m.marginalCost) = "number"
    /\ (item.m.fixedPrice = Null \/ typeof(item.m.fixedPrice) = "number")

\* the test of one element inside importedData.every(...)
itemShapeOk(item) ==
    /\ typeof(item.m.id) = "number"
    /\ typeof(item.m.name) = "string"
    /\ typeof(item.m.investment) = "number"
    /\ typeof(item.m.subscription) = "number"
    /\ typeof(item.m.marginalCost) = "number"
    /\ (item.m.pricingType = JsStr("variable") \/ item.m.pricingType = JsStr("fixed"))
    /\ (item.m.fixedPrice = Null \/ typeof(item.m.fixedPrice) = "number")

RECURSIVE everyItem(_)
\* importedData.every(...): "true", "false", or "throws" when an element
\* reached before any failing one is null (reading .id of null is a TypeError)
everyItem(items) ==
    IF items = <<>> THEN "true"
    ELSE IF Head(items).t = "null" THEN "throws"
    ELSE IF ~itemShapeOk(Head(items)) THEN "false"
    ELSE everyItem(Tail(items))

\* the outcome of the body of reader.onload on a file's text
importOutcome(file) ==
    IF parseThrows(file) THEN "parseError"
    ELSE IF file.doc.t # "array" THEN "invalid"
    ELSE CASE everyItem(file.doc.items) = "throws" -> "parseError"
           [] everyItem(file.doc.items) = "false"  -> "invalid"
           [] OTHER                                 -> "imported"

\* a map that keeps the entries of the list in front of the imported ones
chargersWithNewIdsMerged(items, t, rnd) ==
    chargers \o [i \in 1..Len(items) |-> [items[i].m EXCEPT !.id = JsNum(t * Scale + rnd[i])]]

\* importedData.map(charger => ({...charger, id: Date.now() + Math.random()}))
chargersWithNewIds(items, t, rnd) ==
    [i \in 1..Len(items) |-> [items[i].m EXCEPT !.id = JsNum(t * Scale + rnd[i])]]

removeAt(seq, i) == SubSeq(seq, 1, i - 1) \o SubSeq(seq, i + 1, Len(seq))

\* reader.onload for the i-th read in flight
onload(i) ==
    /\ i \in 1..Len(reading)
    /\ reading' = removeAt(reading, i)
    /\ LET file == reading[i]
           outcome == importOutcome(file)
       IN  /\ last' = [op |-> "onload", result |-> outcome]
           /\ IF outcome = "imported"
              THEN \E rnd \in [1..Len(file.doc.items) -> 0..MaxRandom] :
                      chargers' = chargersWithNewIds(file.doc.items, now, rnd)
              ELSE UNCHANGED chargers
    /\ UNCHANGED <<electricityPrice, monthlyKwh, newCharger, now>>

(* -------------------------------- chartData --------------------------- *)
\* the effective electricity price of a charger
effectivePrice(c) ==
    IF c.pricingType = JsStr("fixed")
    THEN (IF Truthy(c.fixedPrice) THEN c.fixedPrice ELSE JsNum(0))
    ELSE electricityPrice

\* totalCost of charger c at a month
totalCost(c, month) ==
    JsAdd(JsAdd(JsAdd(c.investment,
                      JsMul(c.subscription, Whole(month))),
                JsMul(JsMul(c.marginalCost, monthlyKwh), Whole(month))),
          JsMul(JsMul(effectivePrice(c), monthlyKwh), Whole(month)))

\* dataPoint[key] = value on an object: an existing key is overwritten
setKey(obj, key, value) ==
    [k \in (DOMAIN obj) \cup {key} |-> IF k = key THEN value ELSE obj[k]]

RECURSIVE forEachCharger(_, _, _)
\* chargers.forEach(...) over the data point of a month
forEachCharger(list, month, dataPoint) ==
    IF list = <<>> THEN dataPoint
    ELSE forEachCharger(Tail(list), month,
                        setKey(dataPoint, Head(list).name.s,
                               MathRound(totalCost(Head(list), month))))

\* months.map(month => ...): element i of the array is the point of month i-1
chartData ==
    [i \in 1..NumMonths |->
        forEachCharger(chargers, i - 1, [k \in {"month"} |-> Whole(i - 1)])]

(* ----------------------------- specification -------------------------- *)
\* typing into the draft form
EditDraft ==
    \/ \E v \in NameInputs : setName(v)
    \/ \E v \in InvestmentInputs : setInvestment(v)
    \/ \E v \in SubscriptionInputs : setSubscription(v)
    \/ \E v \in MarginalInputs : setMarginalCost(v)
    \/ selectVariable
    \/ selectFixed
    \/ \E v \in FixedPriceInputs : setFixedPrice(v)

\* picking a file: one of PickableFiles
PickFile == \E file \in PickableFiles : importChargers(file)

\* picking a file that holds a list of chargers
PickValidFile == \E file \in ValidFiles : importChargers(file)

\* picking the file that exportChargers saves for the list as it is now
PickExport == importChargers(JSONstringify(chargers))

MoveSliders ==
    \/ \E v \in ElectricityPrices : setElectricityPrice(v)
    \/ \E v \in MonthlyKwhs : setMonthlyKwh(v)

Next ==
    \/ EditDraft
    \/ addCharger
    \/ \E i \in 1..Len(chargers) : removeButton(i)
    \/ exportChargers
    \/ PickFile
    \/ PickExport
    \/ \E i \in 1..Len(reading) : onload(i)
    \/ MoveSliders
    \/ Tick

Spec == Init /\ [][Next]_vars

\* the form and the list: add and remove
NextForm ==
    \/ EditDraft
    \/ addCharger
    \/ \E i \in 1..Len(chargers) : removeButton(i)
    \/ Tick

SpecForm == Init /\ [][NextForm]_vars

\* the files: import, export and remove
NextFiles ==
    \/ \E i \in 1..Len(chargers) : removeButton(i)
    \/ exportChargers
    \/ PickFile
    \/ PickExport
    \/ \E i \in 1..Len(reading) : onload(i)
    \/ Tick

SpecFiles == Init /\ [][NextFiles]_vars

\* the round trip: a list built with the form, exported and imported again
NextRoundTrip ==
    \/ EditDraft
    \/ addCharger
    \/ exportChargers
    \/ PickExport
    \/ \E i \in 1..Len(reading) : onload(i)

SpecRoundTrip == Init /\ [][NextRoundTrip]_vars

\* the chart: the sliders over the lists that the form and removals produce
NextChart ==
    \/ MoveSliders
    \/ EditDraft
    \/ addCharger
    \/ \E i \in 1..Len(chargers) : removeButton(i)

SpecChart == Init /\ [][NextChart]_vars

\* ids that removeCharger may be called with: those an entry can bear and
\* others
CallableIds == {JsNum(n) : n \in 0..(MaxNow * Scale + MaxRandom)}

\* removal: removeCharger on any id, over the lists that imports produce
NextRemove ==
    \/ \E id \in CallableIds : removeCharger(id)
    \/ \E i \in 1..Len(chargers) : removeButton(i)
    \/ PickFile
    \/ \E i \in 1..Len(reading) : onload(i)
    \/ Tick

SpecRemove == Init /\ [][NextRemove]_vars

\* replacement: reads of files that hold a list, completing while the form
\* (with variable pricing) and the trash buttons change the list
NextReplace ==
    \/ \E v \in NameInputs : setName(v)
    \/ \E v \in InvestmentInputs : setInvestment(v)
    \/ \E v \in SubscriptionInputs : setSubscription(v)
    \/ \E v \in MarginalInputs : setMarginalCost(v)
    \/ addCharger
    \/ \E i \in 1..Len(chargers) : removeButton(i)
    \/ PickValidFile
    \/ \E i \in 1..Len(reading) : onload(i)

SpecReplace == Init /\ [][NextReplace]_vars

(* ====================================================================== *)
(* Claims about the projection (chartData), checked under SpecChart        *)
(* ====================================================================== *)
isNaN(x) == x.t = "number" /\ x.nan

\* the integer nearest to x tenths, a tie going up
Nearest(x) ==
    CHOOSE n \in {x \div Scale, (x \div Scale) + 1} :
        /\ 2 * (n * Scale - x) <= Scale
        /\ 2 * (x - n * Scale) < Scale

\* the price the claim names: the fixed price of a fixed-price charger (0 when
\* it has none), the slider's price otherwise
claimedPrice(c) ==
    IF c.pricingType.s = "fixed"
    THEN (IF c.fixedPrice.t = "number" THEN c.fixedPrice.v ELSE 0)
    ELSE electricityPrice.v

\* investment + subscription*m + marginalCost*monthlyKwh*m + price*monthlyKwh*m,
\* in tenths; monthlyKwh is a whole number of kWh
claimedTotal(c, m) ==
    LET kwh == monthlyKwh.v \div Scale
    IN  c.investment.v + c.subscription.v * m
        + c.marginalCost.v * kwh * m + claimedPrice(c) * kwh * m

claimedCost(c, m) ==
    IF isNaN(c.investment) \/ isNaN(c.subscription) \/ isNaN(c.marginalCost)
    THEN NaN
    ELSE Whole(Nearest(claimedTotal(c, m)))

\* C1: the value stored for each charger at each month 0..60 is the rounded
\* sum investment + subscription*m + marginalCost*monthlyKwh*m +
\* effectivePrice*monthlyKwh*m; the initial charger at price 2.5 and 300 kWh
\* costs 12720 at month 12.
C1_StoredValueIsRoundedCost ==
    LET data == chartData
    IN  /\ \A i \in 1..Len(chargers) : \A m \in 0..(NumMonths - 1) :
              data[m + 1][chargers[i].name.s] = claimedCost(chargers[i], m)
        /\ (chargers = initialChargers /\ electricityPrice = JsNum(25)
                /\ monthlyKwh = Whole(300))
              => data[13]["Basic Wall Charger"] = Whole(12720)

\* the names of the chargers of the list
chargerNames == {chargers[i].name.s : i \in 1..Len(chargers)}

\* the last charger of the list that bears name k
lastNamed(k) ==
    LET js == {j \in 1..Len(chargers) : chargers[j].name.s = k}
    IN  chargers[CHOOSE j \in js : \A j2 \in js : j2 <= j]

C10_OneEntryPerCharger ==
    LET data == chartData
    IN  \A m \in 0..(NumMonths - 1) :
          /\ \A i \in 1..Len(chargers) : chargers[i].name.s \in DOMAIN data[m + 1]
          /\ Cardinality({k \in DOMAIN data[m + 1] : k \in chargerNames}) = Len(chargers)

(* ====================================================================== *)
(* Claims about addCharger, checked under SpecForm                         *)
(* ====================================================================== *)
\* the number a typed string denotes, in tenths; ok is FALSE for the empty
\* string and for text that is no number
typedNumber(str) ==
    CASE str = <<"1", ".", "5">> -> [ok |-> TRUE, v |-> 15]
      [] str = <<"1", "0">>      -> [ok |-> TRUE, v |-> 100]
      [] str = <<"0", ".", "2">> -> [ok |-> TRUE, v |-> 2]
      [] str = <<"3", ".", "0">> -> [ok |-> TRUE, v |-> 30]
      [] OTHER                   -> [ok |-> FALSE, v |-> 0]

\* a valid draft: a name, three numbers, and a fixed price when pricing is fixed
validDraft(d) ==
    /\ d.name # ""
    /\ typedNumber(d.investment).ok
    /\ typedNumber(d.subscription).ok
    /\ typedNumber(d.marginalCost).ok
    /\ d.pricingType = "fixed" => typedNumber(d.fixedPrice).ok

\* C3: on a valid draft addCharger makes the list one longer, leaves the
\* existing entries as they are and in place, and appends an entry whose
\* fields are the draft's values (fixedPrice null for variable pricing).
C3_AddAppendsParsedDraft ==
    [][ (addCharger /\ validDraft(newCharger)) =>
          LET n == Len(chargers)
          IN  /\ Len(chargers') = n + 1
              /\ \A i \in 1..n : chargers'[i] = chargers[i]
              /\ chargers'[n + 1].name = JsStr(newCharger.name)
              /\ chargers'[n + 1].investment = JsNum(typedNumber(newCharger.investment).v)
              /\ chargers'[n + 1].subscription = JsNum(typedNumber(newCharger.subscription).v)
              /\ chargers'[n + 1].marginalCost = JsNum(typedNumber(newCharger.marginalCost).v)
              /\ chargers'[n + 1].pricingType = JsStr(newCharger.pricingType)
              /\ chargers'[n + 1].fixedPrice =
                    IF newCharger.pricingType = "fixed"
                    THEN JsNum(typedNumber(newCharger.fixedPrice).v)
                    ELSE Null ]_vars

\* addCharger has just appended the entry of a valid fixed-price draft to a
\* list that already held an entry
C3_Witness ==
    /\ last = [op |-> "addCharger", result |-> "added"]
    /\ Len(chargers) = 2
    /\ chargers[2].name = JsStr("A")
    /\ chargers[2].investment = JsNum(15)
    /\ chargers[2].subscription = Whole(10)
    /\ chargers[2].marginalCost = JsNum(2)
    /\ chargers[2].fixedPrice = Whole(3)
    /\ newCharger = emptyDraft

\* a draft with no name, or with one of investment, subscription and marginal
\* cost empty or not a number
draftLacksRequired(d) ==
    \/ d.name = ""
    \/ ~typedNumber(d.investment).ok
    \/ ~typedNumber(d.subscription).ok
    \/ ~typedNumber(d.marginalCost).ok

C5_AddRejectsMissingFixedPrice ==
    [][ (addCharger /\ newCharger.pricingType = "fixed" /\ newCharger.fixedPrice = <<>>) =>
          /\ Len(chargers') = Len(chargers)
          /\ chargers' = chargers
          /\ last'.result \in {"warnFixedPrice", "warnRequired"} ]_vars

\* addCharger has just refused an otherwise complete fixed-price draft
C5_Witness ==
    /\ last = [op |-> "addCharger", result |-> "warnFixedPrice"]
    /\ newCharger.pricingType = "fixed"
    /\ newCharger.fixedPrice = <<>>
    /\ newCharger.name # ""

(* ====================================================================== *)
(* Claims about import and export                                          *)
(* ====================================================================== *)
idsOf(list) == {list[i].id : i \in 1..Len(list)}

\* C6: the ids of the list are pairwise distinct, and the id given to a new
\* entry, by addCharger or by an import, is not the id of an entry that was
\* there before.  (Checked under SpecFiles.)
C6_IdsDistinctAndFresh ==
    [][ /\ \A i, j \in 1..Len(chargers') :
              i # j => chargers'[i].id # chargers'[j].id
        /\ ((\E r \in 1..Len(reading) : onload(r)) /\ last'.result = "imported")
              => idsOf(chargers') \cap idsOf(chargers) = {}
        /\ (addCharger /\ last'.result = "added")
              => chargers'[Len(chargers')].id \notin idsOf(chargers) ]_vars

\* all fields but id agree, entry by entry
sameExceptId(a, b) ==
    /\ Len(a) = Len(b)
    /\ \A i \in 1..Len(a) : \A f \in ChargerFields \ {"id"} : a[i][f] = b[i][f]

wellShaped(item) ==
    /\ item.t = "object"
    /\ \A f \in {"id", "investment", "subscription", "marginalCost"} : item.m[f].t = "number"
    /\ item.m.name.t = "string"
    /\ item.m.pricingType.t = "string"
    /\ item.m.pricingType.s \in {"variable", "fixed"}
    /\ item.m.fixedPrice.t \in {"null", "number"}

\* a malformed payload: not JSON, not an array, or an array with an element of
\* the wrong shape
malformed(file) ==
    \/ ~file.wellFormed
    \/ file.doc.t # "array"
    \/ \E k \in 1..Len(file.doc.items) : ~wellShaped(file.doc.items[k])

\* C8: an import of a malformed payload fails and leaves the list untouched.
\* (Checked under SpecFiles.)
C8_MalformedImportLeavesList ==
    [][ \A r \in 1..Len(reading) :
          (onload(r) /\ malformed(reading[r])) =>
             /\ chargers' = chargers
             /\ last'.result \in {"invalid", "parseError"} ]_vars

\* a read of a malformed array has completed and was refused
C8_Witness ==
    /\ last = [op |-> "onload", result |-> "invalid"]
    /\ chargers = initialChargers

\* C9: every charger of the list whose pricingType is fixed has a fixedPrice
\* that is a number.  (Checked under SpecFiles.)
C9_FixedHasFixedPrice ==
    \A i \in 1..Len(chargers) :
        chargers[i].pricingType = JsStr("fixed")
            => (chargers[i].fixedPrice.t = "number" /\ ~chargers[i].fixedPrice.nan)

\* C14: whatever the names of the chargers, the month field of the point at
\* position m, 0 <= m <= 60, is m: no cost entry takes the place of the
\* month index.  (Checked under SpecChart.)
C14_MonthFieldIsMonth ==
    LET data == chartData
    IN  \A m \in 0..(NumMonths - 1) : data[m + 1].month = Whole(m)

(* ====================================================================== *)
(* Claims about removal, checked under SpecRemove                          *)
(* ====================================================================== *)
\* C11: removeCharger(id) with an id that no entry of the list bears leaves
\* the list as it is, entries and order, and raises nothing.
C11_RemoveAbsentIdIsNoOp ==
    [][ \A id \in CallableIds :
          (removeCharger(id) /\ id \notin idsOf(chargers)) =>
             /\ chargers' = chargers
             /\ last' = [op |-> "removeCharger", result |-> "ok"] ]_vars

\* removeCharger has just run on the initial list and the list is whole: an
\* entry once removed never returns with its old id, so the id was absent
C11_Witness ==
    /\ last = [op |-> "removeCharger", result |-> "ok"]
    /\ chargers = initialChargers

\* C13: the trash button of a row removes exactly that entry: the list is
\* one shorter and the other entries remain, unchanged and in their order.
\* (Checked under SpecRemove.)
C13_RemoveDropsExactlyOne ==
    [][ \A i \in 1..Len(chargers) :
          removeButton(i) =>
             /\ Len(chargers') = Len(chargers) - 1
             /\ chargers' = removeAt(chargers, i) ]_vars

(* ====================================================================== *)
(* Claims about replacement by import, checked under SpecReplace           *)
(* ====================================================================== *)
\* entry c has the non-id fields of the payload element item
fromItem(c, item) == \A f \in ChargerFields \ {"id"} : c[f] = item.m[f]

\* C12: a successful import replaces the list in one step.  The new list has
\* one entry per element of the payload, in the payload's order and with its
\* non-id fields, and an entry of the list as it was, added before or after
\* the file was selected, is gone unless the payload holds its fields.
C12_ImportReplacesList ==
    [][ \A r \in 1..Len(reading) :
          (onload(r) /\ last'.result = "imported") =>
             LET items == reading[r].doc.items
             IN  /\ Len(chargers') = Len(items)
                 /\ \A k \in 1..Len(items) : fromItem(chargers'[k], items[k])
                 /\ \A j \in 1..Len(chargers) :
                       (\A k \in 1..Len(items) : ~fromItem(chargers[j], items[k]))
                          => \A k \in 1..Len(chargers') : chargers'[k] # chargers[j] ]_vars

\* the read of the two-element file has just completed: the list is its two
\* elements, in order, and nothing else
C12_Witness ==
    /\ last = [op |-> "onload", result |-> "imported"]
    /\ Len(chargers) = 2
    /\ fromItem(chargers[1], fixedNullItem)
    /\ fromItem(chargers[2], okVariableItem)

====
